---- MODULE Spec2Model ----
(***************************************************************************)
(* Model of cad/needle_bearing_holder.py: the Spec dataclass, the part     *)
(* builders (boolean chains over positioned primitives) and the export     *)
(* driver under __main__.                                                  *)
(*                                                                         *)
(* Lengths are fixed-point integers, one unit = 1/40 mm (0.025 mm), so     *)
(* that every literal of the source (0.1, 0.25, 0.7, 3.2/2, 2.25/2, ...)   *)
(* and every halving the source performs is exact.                         *)
(***************************************************************************)
EXTENDS Integers, Sequences, FiniteSets, TLC

\* n millimetres, in units.
mm(n) == 40 * n

\* n hundredths of a millimetre, in units (n a multiple of 5: 0.05 mm = 2 units).
cmm(n) == (2 * n) \div 5

Half(n) == n \div 2

Max(a, b) == IF a >= b THEN a ELSE b

(***************************************************************************)
(* class Spec (a dataclass).  gap_between_bearings has no annotation: it   *)
(* is a class attribute, not a dataclass field, so an instance has no own  *)
(* value (Unset) until one is assigned and reads fall back to the class;    *)
(* an assigned instance value v is held as <<v>>.                          *)
(***************************************************************************)
Unset == <<>>

class_gap_between_bearings == mm(2)

NewSpec ==
    [ bearing_od |-> mm(16),
      bearing_id |-> mm(8) - cmm(10),
      bearing_thickness |-> mm(5),
      gap_between_bearings |-> Unset,
      general_wall_thickness |-> mm(3),
      needle_shaft_length |-> mm(16),
      needle_shaft_od |-> mm(2) + cmm(25),
      needle_shaft_flats_width |-> cmm(150) + cmm(20),
      mount_stepper_width |-> mm(42),
      mount_stepper_interface_depth |-> mm(20),
      mount_stepper_top_to_bottom_bearing_bottom |-> mm(94),
      dist_stepper_to_needle_axis |-> mm(32),
      raiser_width_x |-> mm(15),
      raiser_width_y |-> mm(10),
      spool_width |-> mm(14),
      spool_diameter |-> mm(72) ]

\* Attribute lookup spec.gap_between_bearings: instance value, else class value.
gap_between_bearings(s) ==
    IF s.gap_between_bearings = Unset THEN class_gap_between_bearings
    ELSE s.gap_between_bearings[1]

bearing_holder_z_height_stale(s) ==
    NewSpec.bearing_thickness * 2 + class_gap_between_bearings

bearing_holder_z_height(s) ==
    s.bearing_thickness * 2 + gap_between_bearings(s)

diameter_at_spool_holder(s) ==
    s.bearing_id - cmm(70)

(***************************************************************************)
(* Primitives of the geometry library, as the source uses them.  A shape   *)
(* carries its axis-aligned bounding box bb = [x, y, z], each <<lo, hi>>.  *)
(***************************************************************************)
ALIGN_MIN == "MIN"

ALIGN_CENTER == "CENTER"

ALIGN_MAX == "MAX"

ANCHOR_BOTTOM == <<ALIGN_CENTER, ALIGN_CENTER, ALIGN_MIN>>

ANCHOR_TOP == <<ALIGN_CENTER, ALIGN_CENTER, ALIGN_MAX>>

ANCHOR_CENTER == <<ALIGN_CENTER, ALIGN_CENTER, ALIGN_CENTER>>

\* The extent of a primitive of the given size along one axis, at the origin.
Extent(size, align) ==
    CASE align = ALIGN_MIN -> <<0, size>>
      [] align = ALIGN_CENTER -> <<0 - Half(size), Half(size)>>
      [] align = ALIGN_MAX -> <<0 - size, 0>>

Box(length, width, height, align) ==
    [ kind |-> "box",
      bb |-> [ x |-> Extent(length, align[1]),
               y |-> Extent(width, align[2]),
               z |-> Extent(height, align[3]) ] ]

\* Cylinder about the Z axis.
Cylinder(radius, height, align) ==
    [ kind |-> "cyl", axis |-> "Z", r |-> radius,
      bb |-> [ x |-> Extent(2 * radius, align[1]),
               y |-> Extent(2 * radius, align[2]),
               z |-> Extent(height, align[3]) ] ]

\* Cylinder(..., rotation=POS_X): centred, axis along X.
CylinderX(radius, height) ==
    [ kind |-> "cyl", axis |-> "X", r |-> radius,
      bb |-> [ x |-> Extent(height, ALIGN_CENTER),
               y |-> Extent(2 * radius, ALIGN_CENTER),
               z |-> Extent(2 * radius, ALIGN_CENTER) ] ]

\* Cylinder(..., rotation=POS_Y): centred, axis along Y.
CylinderY(radius, height) ==
    [ kind |-> "cyl", axis |-> "Y", r |-> radius,
      bb |-> [ x |-> Extent(2 * radius, ALIGN_CENTER),
               y |-> Extent(height, ALIGN_CENTER),
               z |-> Extent(2 * radius, ALIGN_CENTER) ] ]

Cone(bottom_radius, top_radius, height, align) ==
    [ kind |-> "cone", axis |-> "Z", r_bottom |-> bottom_radius, r_top |-> top_radius,
      bb |-> [ x |-> Extent(2 * Max(bottom_radius, top_radius), align[1]),
               y |-> Extent(2 * Max(bottom_radius, top_radius), align[2]),
               z |-> Extent(height, align[3]) ] ]

\* shape.rotate(axis, angle): kept symbolically; 'at' is a later translation.
Rotate(shape, axis, angle) ==
    [ kind |-> "rot", about |-> axis, angle |-> angle, of |-> shape, at |-> <<0, 0, 0>> ]

\* a - b and a & b on two shapes.
Diff(a, b) == [ kind |-> "diff", a |-> a, b |-> b ]

Inter(a, b) == [ kind |-> "inter", a |-> a, b |-> b ]

Shift(iv, d) == <<iv[1] + d, iv[2] + d>>

ShiftBB(bb, X, Y, Z) ==
    [ x |-> Shift(bb.x, X), y |-> Shift(bb.y, Y), z |-> Shift(bb.z, Z) ]

\* bd.Pos(X, Y, Z) * shape: translation.
RECURSIVE Pos(_, _, _, _)
Pos(X, Y, Z, shape) ==
    CASE shape.kind \in {"box", "cyl", "cone"} ->
           [ shape EXCEPT !.bb = ShiftBB(shape.bb, X, Y, Z) ]
      [] shape.kind \in {"diff", "inter"} ->
           [ shape EXCEPT !.a = Pos(X, Y, Z, shape.a), !.b = Pos(X, Y, Z, shape.b) ]
      [] shape.kind = "rot" ->
           [ shape EXCEPT !.at = <<shape.at[1] + X, shape.at[2] + Y, shape.at[3] + Z>> ]
      [] shape.kind = "part" ->
           [ shape EXCEPT !.ops =
               [ i \in 1..Len(shape.ops) |->
                   [ shape.ops[i] EXCEPT !.shape = Pos(X, Y, Z, shape.ops[i].shape) ] ] ]

\* p = bd.Part(None); p += s; p -= s
EmptyPart(name) == [ kind |-> "part", name |-> name, ops |-> <<>> ]

Add(p, shape) == [ p EXCEPT !.ops = Append(p.ops, [ op |-> "add", shape |-> shape ]) ]

Sub(p, shape) == [ p EXCEPT !.ops = Append(p.ops, [ op |-> "sub", shape |-> shape ]) ]

(***************************************************************************)
(* stepper_grip(spec)                                                      *)
(***************************************************************************)
\* "Remove the raiser rod": the slot for the rod.
stepper_grip_raiser_slot_tight(spec) ==
    Pos(0, Half(spec.bearing_od), 0,
        Box(spec.raiser_width_x - cmm(10),
            spec.raiser_width_y + cmm(10),
            spec.mount_stepper_top_to_bottom_bearing_bottom * 2,
            <<ALIGN_CENTER, ALIGN_MIN, ALIGN_MIN>>))

stepper_grip_raiser_slot(spec) ==
    Pos(0, Half(spec.bearing_od), 0,
        Box(spec.raiser_width_x + cmm(10),
            spec.raiser_width_y + cmm(10),
            spec.mount_stepper_top_to_bottom_bearing_bottom * 2,
            <<ALIGN_CENTER, ALIGN_MIN, ALIGN_MIN>>))

\* "Remove bolts": for z in (-8, -21, -34): p -= ...
stepper_grip_bolts(spec, p) ==
    LET zs == <<0 - mm(8), 0 - mm(21), 0 - mm(34)>>
        bolt(z) ==
            Pos(0,
                Half(spec.bearing_od) + Half(spec.raiser_width_y),
                spec.mount_stepper_top_to_bottom_bearing_bottom + z,
                CylinderX(Half(cmm(320)), spec.mount_stepper_width * 2))
    IN  Sub(Sub(Sub(p, bolt(zs[1])), bolt(zs[2])), bolt(zs[3]))

stepper_grip(spec) ==
    LET p0 == EmptyPart("stepper_grip")
        \* Add the stepper motor mount.
        p1 == Add(p0,
                Pos(0, spec.dist_stepper_to_needle_axis,
                    spec.mount_stepper_top_to_bottom_bearing_bottom,
                    Box(spec.mount_stepper_width + 2 * spec.general_wall_thickness,
                        spec.mount_stepper_interface_depth + spec.general_wall_thickness,
                        spec.mount_stepper_width + spec.general_wall_thickness,
                        <<ALIGN_CENTER, ALIGN_MIN, ALIGN_MAX>>)))
        \* Add extension out to the bearing holder.
        p2 == Add(p1,
                Pos(0, Half(spec.bearing_od),
                    spec.mount_stepper_top_to_bottom_bearing_bottom,
                    Box(Half(spec.mount_stepper_width),
                        spec.dist_stepper_to_needle_axis,
                        spec.mount_stepper_width + spec.general_wall_thickness,
                        <<ALIGN_CENTER, ALIGN_MIN, ALIGN_MAX>>)))
        \* Remove the literal stepper motor.
        p3 == Sub(p2,
                Pos(0, spec.dist_stepper_to_needle_axis + spec.general_wall_thickness,
                    spec.mount_stepper_top_to_bottom_bearing_bottom
                      - spec.general_wall_thickness,
                    Box(spec.mount_stepper_width,
                        spec.mount_stepper_interface_depth,
                        spec.mount_stepper_width,
                        <<ALIGN_CENTER, ALIGN_MIN, ALIGN_MAX>>)))
        \* Remove the raiser rod.
        p4 == Sub(p3, stepper_grip_raiser_slot(spec))
    IN  stepper_grip_bolts(spec, p4)

(***************************************************************************)
(* bearing_holder(spec)                                                    *)
(***************************************************************************)
\* "Draw the bearing holder (top)": ring anchored at its top face.
bearing_holder_top_anchored_bottom(spec) ==
    Pos(0, 0, spec.mount_stepper_top_to_bottom_bearing_bottom,
        Diff(Cylinder(Half(spec.bearing_od) + spec.general_wall_thickness,
                      spec.bearing_thickness, ANCHOR_BOTTOM),
             Cylinder(Half(spec.bearing_od),
                      spec.bearing_thickness, ANCHOR_BOTTOM)))

bearing_holder_top(spec) ==
    Pos(0, 0, spec.mount_stepper_top_to_bottom_bearing_bottom,
        Diff(Cylinder(Half(spec.bearing_od) + spec.general_wall_thickness,
                      spec.bearing_thickness, ANCHOR_TOP),
             Cylinder(Half(spec.bearing_od),
                      spec.bearing_thickness, ANCHOR_TOP)))

\* "Draw the raiser rod".
bearing_holder_raiser_rod_swapped(spec) ==
    Pos(0, Half(spec.bearing_od) + spec.raiser_width_y, 0,
        Box(spec.raiser_width_y,
            spec.raiser_width_x,
            spec.mount_stepper_top_to_bottom_bearing_bottom,
            <<ALIGN_CENTER, ALIGN_MAX, ALIGN_MIN>>))

bearing_holder_raiser_rod(spec) ==
    Pos(0, Half(spec.bearing_od) + spec.raiser_width_y, 0,
        Box(spec.raiser_width_x,
            spec.raiser_width_y,
            spec.mount_stepper_top_to_bottom_bearing_bottom,
            <<ALIGN_CENTER, ALIGN_MAX, ALIGN_MIN>>))

\* "Remove bolts": for z in (-8, -21, -34): p -= ...
bearing_holder_bolts_shifted(spec, p) ==
    LET zs == <<0 - mm(8), 0 - mm(20), 0 - mm(34)>>
        bolt(z) ==
            Pos(0,
                Half(spec.bearing_od) + Half(spec.raiser_width_y),
                spec.mount_stepper_top_to_bottom_bearing_bottom + z,
                CylinderX(Half(cmm(320)), spec.mount_stepper_width * 2))
    IN  Sub(Sub(Sub(p, bolt(zs[1])), bolt(zs[2])), bolt(zs[3]))

bearing_holder_bolts(spec, p) ==
    LET zs == <<0 - mm(8), 0 - mm(21), 0 - mm(34)>>
        bolt(z) ==
            Pos(0,
                Half(spec.bearing_od) + Half(spec.raiser_width_y),
                spec.mount_stepper_top_to_bottom_bearing_bottom + z,
                CylinderX(Half(cmm(320)), spec.mount_stepper_width * 2))
    IN  Sub(Sub(Sub(p, bolt(zs[1])), bolt(zs[2])), bolt(zs[3]))

bearing_holder(spec) ==
    LET p0 == EmptyPart("bearing_holder")
        \* Draw the bearing holder (bottom).
        p1 == Add(p0,
                Cylinder(Half(spec.bearing_od) + spec.general_wall_thickness,
                         spec.bearing_thickness * 2 + gap_between_bearings(spec),
                         ANCHOR_BOTTOM))
        \* Remove each of the bearings (bottom).
        bearing(bottom_z) ==
            Pos(0, 0, bottom_z,
                Cylinder(Half(spec.bearing_od), spec.bearing_thickness, ANCHOR_BOTTOM))
        p2 == Sub(p1, bearing(0))
        p3 == Sub(p2, bearing(spec.bearing_thickness + gap_between_bearings(spec)))
        \* Draw the bearing holder (top).
        p4 == Add(p3, bearing_holder_top(spec))
        \* Draw the raiser rod.
        p5 == Add(p4, bearing_holder_raiser_rod(spec))
        \* Remove hole though the middle.
        p6 == Sub(p5,
                Cylinder(Half(spec.bearing_od - mm(4)),
                         spec.bearing_thickness * 2 + gap_between_bearings(spec),
                         ANCHOR_BOTTOM))
        \* Make it easier to pop the bearings out.
        p7 == Sub(p6,
                Pos(0, 0 - Half(spec.bearing_od) - mm(1),
                    Half(bearing_holder_z_height(spec)),
                    Box(mm(5), Half(spec.bearing_od),
                        gap_between_bearings(spec) + mm(3), ANCHOR_CENTER)))
    IN  bearing_holder_bolts(spec, p7)

(***************************************************************************)
(* bearing_adapter(spec)                                                   *)
(***************************************************************************)
bearing_adapter(spec) ==
    LET p0 == EmptyPart("bearing_adapter")
        p1 == Add(p0,
                Cylinder(Half(spec.bearing_id), bearing_holder_z_height(spec),
                         ANCHOR_BOTTOM))
        \* Add flange.
        p2 == Add(p1,
                Pos(0, 0, bearing_holder_z_height(spec),
                    Cone(Half(spec.bearing_id) + mm(2), Half(mm(8)),
                         spec.general_wall_thickness, ANCHOR_BOTTOM)))
        \* Add part all the way to the top.
        p3 == Add(p2,
                Pos(0, 0, 0,
                    Cylinder(Half(diameter_at_spool_holder(spec)),
                             spec.mount_stepper_top_to_bottom_bearing_bottom + mm(12),
                             ANCHOR_BOTTOM)))
        \* Remove the needle shaft (round, with flats).
        p4 == Sub(p3,
                Inter(Cylinder(Half(spec.needle_shaft_od),
                               bearing_holder_z_height(spec), ANCHOR_BOTTOM),
                      Box(spec.needle_shaft_flats_width, mm(10),
                          bearing_holder_z_height(spec), ANCHOR_BOTTOM)))
        \* Remove passage for the thread/wire (bottom).
        p5 == Sub(p4,
                Pos(0, 0, bearing_holder_z_height(spec) + mm(2),
                    Rotate(Cylinder(Half(cmm(320)), bearing_holder_z_height(spec) * 5,
                                    ANCHOR_CENTER),
                           "Y", 40)))
        \* Remove passage for the thread/wire (top, on +X side).
        p6 == Sub(p5,
                Pos(Half(spec.bearing_id), 0,
                    spec.mount_stepper_top_to_bottom_bearing_bottom,
                    Box(mm(3), mm(3), mm(25),
                        <<ALIGN_MAX, ALIGN_CENTER, ALIGN_CENTER>>)))
        \* Remove M3 hole in the top.
    IN  Sub(p6,
            Pos(0, 0, spec.mount_stepper_top_to_bottom_bearing_bottom + mm(7),
                CylinderY(Half(cmm(280)), mm(40))))

(***************************************************************************)
(* spool_holder(spec)                                                      *)
(***************************************************************************)
\* The bore through the base.
spool_holder_bore_dependent(spec) ==
    Cylinder(Half(diameter_at_spool_holder(spec)) + cmm(25)
               + (spec.spool_width - NewSpec.spool_width),
             mm(10), ANCHOR_BOTTOM)

spool_holder_bore(spec) ==
    Cylinder(Half(diameter_at_spool_holder(spec)) + cmm(25), mm(10), ANCHOR_BOTTOM)

spool_holder(spec) ==
    LET p0 == EmptyPart("spool_holder")
        base_t == mm(10)
        p1 == Add(p0,
                Box(spec.spool_width + 2 * spec.general_wall_thickness,
                    mm(10),
                    base_t + Half(spec.spool_diameter) + mm(10),
                    ANCHOR_BOTTOM))
        p2 == Sub(p1, spool_holder_bore(spec))
        \* Remove screw hole.
        p3 == Sub(p2, Pos(0, 0, Half(mm(10)), CylinderX(Half(cmm(320)), mm(100))))
        \* Remove the spool.
        p4 == Sub(p3,
                Pos(0, 0, base_t,
                    Box(spec.spool_width, mm(100), mm(1000), ANCHOR_BOTTOM)))
        \* Remove the screw through the spool.
    IN  Sub(p4,
            Pos(0, 0, base_t + Half(spec.spool_diameter),
                CylinderX(Half(cmm(320)), mm(1000))))

(***************************************************************************)
(* assembly(spec): calls the four leaf builders itself.                    *)
(***************************************************************************)
assembly(spec) ==
    LET p0 == EmptyPart("assembly")
        p1 == Add(p0, bearing_holder(spec))
        p2 == Add(p1, stepper_grip(spec))
        p3 == Add(p2, Pos(mm(25), 0, 0, bearing_adapter(spec)))
    IN  Add(p3,
            Pos(mm(50), 0, spec.mount_stepper_top_to_bottom_bearing_bottom,
                spool_holder(spec)))

\* The leaf builders assembly() calls, in call order.
AssemblyCalls == <<"bearing_holder", "stepper_grip", "bearing_adapter", "spool_holder">>

Build(name, spec) ==
    CASE name = "assembly" -> assembly(spec)
      [] name = "bearing_holder" -> bearing_holder(spec)
      [] name = "stepper_grip" -> stepper_grip(spec)
      [] name = "bearing_adapter" -> bearing_adapter(spec)
      [] name = "spool_holder" -> spool_holder(spec)

(***************************************************************************)
(* Measurements on a built part.  A part is the regularised boolean chain  *)
(* of its ops: added shapes are closed sets, a subtracted shape removes    *)
(* its open interior.  Membership is defined for boxes, axis-aligned       *)
(* cylinders and their differences and intersections (everything in        *)
(* bearing_holder, stepper_grip and spool_holder).                         *)
(***************************************************************************)
Sq(a) == a * a

Abs(a) == IF a < 0 THEN 0 - a ELSE a

Mid(iv) == Half(iv[1] + iv[2])

Within(iv, v, strict) ==
    IF strict THEN iv[1] < v /\ v < iv[2] ELSE iv[1] <= v /\ v <= iv[2]

InDisc(d2, r, strict) == IF strict THEN d2 < Sq(r) ELSE d2 <= Sq(r)

RECURSIVE Inside(_, _, _)
Inside(shape, p, strict) ==
    CASE shape.kind = "box" ->
           /\ Within(shape.bb.x, p[1], strict)
           /\ Within(shape.bb.y, p[2], strict)
           /\ Within(shape.bb.z, p[3], strict)
      [] shape.kind = "cyl" /\ shape.axis = "Z" ->
           /\ Within(shape.bb.z, p[3], strict)
           /\ InDisc(Sq(p[1] - Mid(shape.bb.x)) + Sq(p[2] - Mid(shape.bb.y)),
                     shape.r, strict)
      [] shape.kind = "cyl" /\ shape.axis = "X" ->
           /\ Within(shape.bb.x, p[1], strict)
           /\ InDisc(Sq(p[2] - Mid(shape.bb.y)) + Sq(p[3] - Mid(shape.bb.z)),
                     shape.r, strict)
      [] shape.kind = "cyl" /\ shape.axis = "Y" ->
           /\ Within(shape.bb.y, p[2], strict)
           /\ InDisc(Sq(p[1] - Mid(shape.bb.x)) + Sq(p[3] - Mid(shape.bb.z)),
                     shape.r, strict)
      [] shape.kind = "diff" ->
           Inside(shape.a, p, strict) /\ ~Inside(shape.b, p, ~strict)
      [] shape.kind = "inter" ->
           Inside(shape.a, p, strict) /\ Inside(shape.b, p, strict)

\* Whether point p belongs to the part after its first n ops.
RECURSIVE InOps(_, _, _)
InOps(ops, n, p) ==
    IF n = 0 THEN FALSE
    ELSE IF ops[n].op = "add"
         THEN InOps(ops, n - 1, p) \/ Inside(ops[n].shape, p, FALSE)
         ELSE InOps(ops, n - 1, p) /\ ~Inside(ops[n].shape, p, TRUE)

InPart(part, p) == InOps(part.ops, Len(part.ops), p)

\* Bounding box of the material a shape can contribute.
RECURSIVE ShapeBB(_)
ShapeBB(shape) ==
    CASE shape.kind \in {"box", "cyl", "cone"} -> shape.bb
      [] shape.kind = "diff" -> ShapeBB(shape.a)

AddedShapes(part) ==
    { part.ops[i].shape : i \in { j \in 1..Len(part.ops) : part.ops[j].op = "add" } }

SetMax(S) == CHOOSE m \in S : \A x \in S : x <= m

SetMin(S) == CHOOSE m \in S : \A x \in S : m <= x

ZMax(part) == SetMax({ ShapeBB(sh).z[2] : sh \in AddedShapes(part) })

ZMin(part) == SetMin({ ShapeBB(sh).z[1] : sh \in AddedShapes(part) })

BBoxHeight(part) == ZMax(part) - ZMin(part)

\* Squared largest horizontal distance from the Z axis (the needle axis) that
\* a shape reaches: exact for boxes and for cylinders about the Z axis itself.
RECURSIVE ReachR2(_)
ReachR2(shape) ==
    CASE shape.kind = "box" ->
           Sq(Max(Abs(shape.bb.x[1]), Abs(shape.bb.x[2])))
             + Sq(Max(Abs(shape.bb.y[1]), Abs(shape.bb.y[2])))
      [] shape.kind = "cyl" /\ shape.axis = "Z"
           /\ Mid(shape.bb.x) = 0 /\ Mid(shape.bb.y) = 0 -> Sq(shape.r)
      [] shape.kind = "diff" -> ReachR2(shape.a)

FootprintR2(part) == SetMax({ ReachR2(sh) : sh \in AddedShapes(part) })

\* Probe points: the corners, face centres and centre of every added
\* shape's bounding box.
Marks(iv) == { iv[1], Mid(iv), iv[2] }

Probes(part) ==
    UNION { { <<x, y, z>> : x \in Marks(ShapeBB(sh).x),
                            y \in Marks(ShapeBB(sh).y),
                            z \in Marks(ShapeBB(sh).z) } : sh \in AddedShapes(part) }

\* The three X-axis cylinders a builder's bolt loop removes.
BoltHoles(part) ==
    { part.ops[i].shape :
        i \in { j \in 1..Len(part.ops) :
                  /\ part.ops[j].op = "sub"
                  /\ part.ops[j].shape.kind = "cyl"
                  /\ part.ops[j].shape.axis = "X" } }

(***************************************************************************)
(* State.                                                                  *)
(*   Export driver (__main__):                                             *)
(*     pc       position: "parts" (the dict literal), "mkdir", then per    *)
(*              part "assert", "manifold", "stl", "step"; "done"; "raised" *)
(*     parts    the dict under construction, in insertion order            *)
(*     objs     every solid a builder call has returned; index = identity  *)
(*     calls    number of invocations of each builder                      *)
(*     i        index of the part the export loop is at                    *)
(*     path     what is at the export folder's path: absent, dir or file   *)
(*     created  whether mkdir created the directory in this run            *)
(*     writes   the files written, in order                                *)
(*     checked  parts whose is_manifold was read; warned: those warned of  *)
(*     exc      the exception that ended the run, if any                   *)
(*   Library use of Spec and the builders:                                 *)
(*     spec     a Spec instance                                            *)
(*     lastOp   the most recent operation on it                            *)
(*     ret      the value that operation returned                          *)
(***************************************************************************)
VARIABLES pc, parts, objs, calls, i, path, created, writes, checked, warned, exc,
          spec, lastOp, ret

driverVars == <<pc, parts, objs, calls, i, path, created, writes, checked, warned, exc>>

libVars == <<spec, lastOp, ret>>

vars == <<pc, parts, objs, calls, i, path, created, writes, checked, warned, exc,
          spec, lastOp, ret>>

\* Keys of the parts dict, in insertion order.
PartNames == <<"assembly", "bearing_holder", "stepper_grip", "bearing_adapter", "spool_holder">>

BuilderNames == { PartNames[k] : k \in 1..Len(PartNames) }

\* isinstance(part, bd.Part | bd.Solid | bd.Compound)
Accepted == { "Part", "Solid", "Compound" }

\* What the geometry library may hand back: an accepted type, or (when a
\* boolean operation yields several bodies) a list of shapes.
Kinds == Accepted \cup { "ShapeList" }

NoValue == [ kind |-> "none" ]

Range(seq) == { seq[k] : k \in 1..Len(seq) }

DriverInit ==
    /\ pc = "parts"
    /\ parts = <<>>
    /\ objs = <<>>
    /\ calls = [ b \in BuilderNames |-> 0 ]
    /\ i = 0
    /\ created = FALSE
    /\ writes = <<>>
    /\ checked = {}
    /\ warned = {}
    /\ exc = "none"

LibIdle ==
    /\ spec = NewSpec
    /\ lastOp = "init"
    /\ ret = NoValue

(***************************************************************************)
(* __main__: parts = { "assembly": show(assembly(Spec())), ... }           *)
(***************************************************************************)
\* One builder call on a fresh Spec(): the solid it returns.
Solid(name, children) == [ builder |-> name, spec |-> NewSpec, children |-> children ]

\* "assembly": show(assembly(Spec())).  assembly() calls the four leaf
\* builders itself and unions what they return.
CallAssembly ==
    /\ pc = "parts"
    /\ Len(parts) = 0
    /\ \E k \in Kinds :
         LET n == Len(objs)
             leaves == [ j \in 1..Len(AssemblyCalls) |-> Solid(AssemblyCalls[j], <<>>) ]
             whole == Solid("assembly", [ j \in 1..Len(AssemblyCalls) |-> n + j ])
         IN  /\ objs' = (objs \o leaves) \o <<whole>>
             /\ calls' = [ b \in BuilderNames |->
                             IF b = "assembly" \/ b \in Range(AssemblyCalls)
                             THEN calls[b] + 1 ELSE calls[b] ]
             /\ parts' = Append(parts, [ name |-> PartNames[1],
                                         obj |-> n + Len(AssemblyCalls) + 1,
                                         kind |-> k ])
    /\ UNCHANGED <<pc, i, path, created, writes, checked, warned, exc>>
    /\ UNCHANGED libVars

\* A variant that keeps the leaves for the later entries of the dict.
CallLeaf_reuse ==
    /\ pc = "parts"
    /\ Len(parts) \in 1..(Len(PartNames) - 1)
    /\ \E k \in Kinds :
         LET name == PartNames[Len(parts) + 1]
             a == objs[parts[1].obj]
             j == CHOOSE x \in 1..Len(a.children) : objs[a.children[x]].builder = name
         IN  parts' = Append(parts, [ name |-> name, obj |-> a.children[j], kind |-> k ])
    /\ pc' = IF Len(parts) + 1 = Len(PartNames) THEN "mkdir" ELSE "parts"
    /\ UNCHANGED <<objs, calls, i, path, created, writes, checked, warned, exc>>
    /\ UNCHANGED libVars

\* "bearing_holder": (bearing_holder(Spec())), ... : each leaf entry calls
\* its builder again.
CallLeaf ==
    /\ pc = "parts"
    /\ Len(parts) \in 1..(Len(PartNames) - 1)
    /\ \E k \in Kinds :
         LET name == PartNames[Len(parts) + 1]
         IN  /\ objs' = Append(objs, Solid(name, <<>>))
             /\ calls' = [ calls EXCEPT ![name] = @ + 1 ]
             /\ parts' = Append(parts, [ name |-> name, obj |-> Len(objs) + 1, kind |-> k ])
    /\ pc' = IF Len(parts) + 1 = Len(PartNames) THEN "mkdir" ELSE "parts"
    /\ UNCHANGED <<i, path, created, writes, checked, warned, exc>>
    /\ UNCHANGED libVars

\* A variant that never creates the folder.
Mkdir_skipped ==
    /\ pc = "mkdir"
    /\ pc' = "assert"
    /\ i' = 1
    /\ UNCHANGED <<parts, objs, calls, path, created, writes, checked, warned, exc>>
    /\ UNCHANGED libVars

\* logger.info(...); export_folder.mkdir(exist_ok=True)
Mkdir ==
    /\ pc = "mkdir"
    /\ IF path = "file"
       THEN /\ pc' = "raised"
            /\ exc' = "FileExistsError"
            /\ UNCHANGED <<i, path, created>>
       ELSE /\ pc' = "assert"
            /\ i' = 1
            /\ path' = "dir"
            /\ created' = (path = "absent")
            /\ exc' = exc
    /\ UNCHANGED <<parts, objs, calls, writes, checked, warned>>
    /\ UNCHANGED libVars

\* A variant without the assertion.
AssertType_absent ==
    /\ pc = "assert"
    /\ pc' = "manifold"
    /\ UNCHANGED <<parts, objs, calls, i, path, created, writes, checked, warned, exc>>
    /\ UNCHANGED libVars

\* assert isinstance(part, bd.Part | bd.Solid | bd.Compound), ...
AssertType ==
    /\ pc = "assert"
    /\ IF parts[i].kind \in Accepted
       THEN pc' = "manifold" /\ exc' = exc
       ELSE pc' = "raised" /\ exc' = "AssertionError"
    /\ UNCHANGED <<parts, objs, calls, i, path, created, writes, checked, warned>>
    /\ UNCHANGED libVars

\* A variant in which a non-manifold part ends the run.
ManifoldCheck_fatal ==
    /\ pc = "manifold"
    /\ \E manifold \in BOOLEAN :
         /\ checked' = checked \cup { parts[i].name }
         /\ warned' = warned
         /\ pc' = IF manifold THEN "stl" ELSE "raised"
         /\ exc' = IF manifold THEN exc ELSE "ValueError"
    /\ UNCHANGED <<parts, objs, calls, i, path, created, writes>>
    /\ UNCHANGED libVars

\* if not part.is_manifold: logger.warning(...)
ManifoldCheck ==
    /\ pc = "manifold"
    /\ \E manifold \in BOOLEAN :
         /\ checked' = checked \cup { parts[i].name }
         /\ warned' = IF manifold THEN warned ELSE warned \cup { parts[i].name }
    /\ pc' = "stl"
    /\ UNCHANGED <<parts, objs, calls, i, path, created, writes, exc>>
    /\ UNCHANGED libVars

FileName(name, ext) == <<name, ext>>

\* bd.export_stl(part, str(export_folder / f"{name}.stl"))
ExportStl ==
    /\ pc = "stl"
    /\ IF path = "dir"
       THEN /\ writes' = Append(writes, FileName(parts[i].name, "stl"))
            /\ pc' = "step"
            /\ exc' = exc
       ELSE /\ pc' = "raised"
            /\ exc' = "FileNotFoundError"
            /\ writes' = writes
    /\ UNCHANGED <<parts, objs, calls, i, path, created, checked, warned>>
    /\ UNCHANGED libVars

\* bd.export_step(part, str(export_folder / f"{name}.step")), then the next part.
ExportStep ==
    /\ pc = "step"
    /\ IF path = "dir"
       THEN /\ writes' = Append(writes, FileName(parts[i].name, "step"))
            /\ pc' = IF i = Len(parts) THEN "done" ELSE "assert"
            /\ i' = IF i = Len(parts) THEN i ELSE i + 1
            /\ exc' = exc
       ELSE /\ pc' = "raised"
            /\ exc' = "FileNotFoundError"
            /\ UNCHANGED <<writes, i>>
    /\ UNCHANGED <<parts, objs, calls, path, created, checked, warned>>
    /\ UNCHANGED libVars

Init ==
    /\ DriverInit
    /\ path \in { "absent", "dir", "file" }
    /\ LibIdle

Next ==
    \/ CallAssembly
    \/ CallLeaf
    \/ Mkdir
    \/ AssertType
    \/ ManifoldCheck
    \/ ExportStl
    \/ ExportStep

Spec == Init /\ [][Next]_vars

(***************************************************************************)
(* Library use: a Spec built with keyword arguments, fields assigned, the  *)
(* derived properties read and the builders called on it.                  *)
(***************************************************************************)
\* Largest number of 1 mm steps above its default that a swept field takes.
MaxDelta == 1

Steps == 0..MaxDelta

\* Values each field is given (the defaults among them).
FieldValues ==
    [ bearing_od |-> { mm(16), mm(22) },
      bearing_thickness |-> { mm(5) + mm(1) * d : d \in Steps },
      gap_between_bearings |-> { mm(2) + mm(1) * d : d \in Steps },
      bearing_id |-> { mm(8) - cmm(10), mm(6) },
      mount_stepper_top_to_bottom_bearing_bottom |-> { mm(94), mm(80) },
      raiser_width_x |-> { mm(15), mm(12) },
      raiser_width_y |-> { mm(10), mm(8) },
      spool_width |-> { mm(14), mm(20) },
      spool_diameter |-> { mm(72), mm(50) } ]

FieldNames == DOMAIN FieldValues

\* Spec(bearing_od=..., ...): keyword arguments for the annotated fields.
LibInit ==
    /\ \E od \in FieldValues.bearing_od,
          bt \in FieldValues.bearing_thickness,
          id \in FieldValues.bearing_id,
          mst \in FieldValues.mount_stepper_top_to_bottom_bearing_bottom,
          rwx \in FieldValues.raiser_width_x,
          rwy \in FieldValues.raiser_width_y,
          sw \in FieldValues.spool_width,
          sd \in FieldValues.spool_diameter :
         spec = [ NewSpec EXCEPT
                    !.bearing_od = od,
                    !.bearing_thickness = bt,
                    !.bearing_id = id,
                    !.mount_stepper_top_to_bottom_bearing_bottom = mst,
                    !.raiser_width_x = rwx,
                    !.raiser_width_y = rwy,
                    !.spool_width = sw,
                    !.spool_diameter = sd ]
    /\ lastOp = "init"
    /\ ret = NoValue

\* spec.<field> = value
SetField ==
    /\ \E f \in FieldNames : \E v \in FieldValues[f] :
         spec' = [ spec EXCEPT ![f] = IF f = "gap_between_bearings" THEN <<v>> ELSE v ]
    /\ lastOp' = "setattr"
    /\ ret' = NoValue
    /\ UNCHANGED driverVars

\* spec.bearing_holder_z_height
ReadHeight ==
    /\ ret' = [ kind |-> "value", value |-> bearing_holder_z_height(spec) ]
    /\ lastOp' = "bearing_holder_z_height"
    /\ UNCHANGED <<spec>>
    /\ UNCHANGED driverVars

\* spec.diameter_at_spool_holder
ReadDiameter ==
    /\ ret' = [ kind |-> "value", value |-> diameter_at_spool_holder(spec) ]
    /\ lastOp' = "diameter_at_spool_holder"
    /\ UNCHANGED <<spec>>
    /\ UNCHANGED driverVars

\* assembly(spec), bearing_holder(spec), ...
CallBuilder ==
    /\ \E name \in BuilderNames :
         /\ ret' = Build(name, spec)
         /\ lastOp' = name
    /\ UNCHANGED <<spec>>
    /\ UNCHANGED driverVars

InitBuilders ==
    /\ DriverInit
    /\ path = "absent"
    /\ LibInit

NextBuilders ==
    \/ SetField
    \/ ReadHeight
    \/ ReadDiameter
    \/ CallBuilder

SpecBuilders == InitBuilders /\ [][NextBuilders]_vars

(***************************************************************************)
(* Properties of the export driver (specification Spec).                   *)
(***************************************************************************)
Exts == { "stl", "step" }

Count(seq, x) == Cardinality({ k \in 1..Len(seq) : seq[k] = x })

\* The files of the first n parts, in the order the loop writes them.
FilesUpTo(n) ==
    [ k \in 1..(2 * n) |->
        FileName(PartNames[(k + 1) \div 2], IF k % 2 = 1 THEN "stl" ELSE "step") ]

IndexOf(name) == CHOOSE k \in 1..Len(PartNames) : PartNames[k] = name

AllAccepted == \A k \in 1..Len(parts) : parts[k].kind \in Accepted

\* C1: a run in which every part passes the type assertion ends with the
\* output directory in place (created by mkdir before the first write when it
\* was absent; an existing directory raises nothing) and with <label>.stl and
\* <label>.step written exactly once for each of the five labels, and nothing
\* else written.
C1_TwoFilesPerPartInDirectory ==
    /\ (writes # <<>> => path = "dir")
    /\ (pc = "raised" =>
          \/ exc = "AssertionError" /\ parts[i].kind \notin Accepted
          \/ exc = "FileExistsError" /\ path = "file")
    /\ (pc = "done" =>
          /\ AllAccepted
          /\ path = "dir"
          /\ Len(writes) = 2 * Len(PartNames)
          /\ \A k \in 1..Len(PartNames) : \A e \in Exts :
               Count(writes, FileName(PartNames[k], e)) = 1)

\* A completed run that had to create the directory.
C1_Witness == pc = "done" /\ created /\ Len(writes) = 2 * Len(PartNames)

\* C2: a part that fails the manifold predicate is only warned of: at every
\* point of the loop the files written are those fixed by the loop position
\* alone, both files of a warned part are written, later parts are exported,
\* and no run is ended by a manifold result.
C2_NonManifoldOnlyWarns ==
    /\ warned \subseteq checked
    /\ (pc \in { "assert", "manifold", "stl" } => writes = FilesUpTo(i - 1))
    /\ (pc = "step" =>
          writes = Append(FilesUpTo(i - 1), FileName(parts[i].name, "stl")))
    /\ (pc = "done" => writes = FilesUpTo(Len(PartNames)))
    /\ (pc = "raised" => exc \in { "AssertionError", "FileExistsError" })
    /\ \A name \in warned :
         (pc = "done" \/ IndexOf(name) < i) =>
           \A e \in Exts : FileName(name, e) \in Range(writes)

\* A completed run in which the first and a middle part were warned of.
C2_Witness ==
    /\ pc = "done"
    /\ { "assembly", "stepper_grip" } \subseteq warned
    /\ Len(writes) = 2 * Len(PartNames)

\* C3: a part that is not a Part, Solid or Compound fails the assertion, which
\* ends the run: no file of that part or of any later part is written, its
\* manifold predicate is never read, and nothing runs after the failure.
C3_TypeAssertionIsFatal ==
    /\ \A k \in 1..Len(parts) :
         parts[k].kind \notin Accepted =>
           \A j \in k..Len(parts) :
             /\ \A e \in Exts : FileName(parts[j].name, e) \notin Range(writes)
             /\ parts[j].name \notin checked
    /\ (pc \in { "manifold", "stl", "step" } => parts[i].kind \in Accepted)
    /\ (pc = "raised" /\ exc = "AssertionError" =>
          /\ parts[i].kind \notin Accepted
          /\ writes = FilesUpTo(i - 1)
          /\ checked = { PartNames[k] : k \in 1..(i - 1) })
    /\ (pc = "raised" => ~ENABLED Next)
    /\ (pc = "done" => AllAccepted)

\* The assertion failed at the third part, after the first two were exported.
C3_Witness ==
    /\ pc = "raised"
    /\ exc = "AssertionError"
    /\ i = 3
    /\ Len(writes) = 4

\* The solid exported under a leaf label.
Exported(name) == parts[IndexOf(name)].obj

\* The solids assembly() combined.
Combined == objs[parts[1].obj].children

\* C4 as claimed: in one run each leaf builder is invoked exactly once and the
\* solids combined into the assembly are the ones exported under the leaf
\* labels.
C4_LeavesBuiltOnce ==
    pc = "done" =>
      \A j \in 1..Len(AssemblyCalls) :
        /\ calls[AssemblyCalls[j]] = 1
        /\ Combined[j] = Exported(AssemblyCalls[j])

\* C4 amended: in one run each leaf builder is invoked exactly twice, once
\* inside assembly() and once for its own dict entry; the solids combined into
\* the assembly are other objects than the ones exported under the leaf
\* labels, built by the same builder from an equal default Spec (hence of
\* equal geometry).
C4_LeavesBuiltTwice ==
    /\ \A b \in BuilderNames : calls[b] <= 2
    /\ (Len(parts) = Len(PartNames) =>
          /\ calls["assembly"] = 1
          /\ \A j \in 1..Len(AssemblyCalls) :
               LET name == AssemblyCalls[j]
               IN  /\ calls[name] = 2
                   /\ Combined[j] # Exported(name)
                   /\ objs[Combined[j]].builder = name
                   /\ objs[Exported(name)].builder = name
                   /\ objs[Combined[j]].spec = objs[Exported(name)].spec)
    /\ (pc = "mkdir" =>
          \A j \in 1..Len(AssemblyCalls) :
            LET name == AssemblyCalls[j]
            IN  Build(name, objs[Combined[j]].spec)
                  = Build(name, objs[Exported(name)].spec))

\* A completed run: every builder has been called.
C4_Witness == pc = "done" /\ calls["spool_holder"] = 2 /\ Len(objs) = 9

(***************************************************************************)
(* Properties of Spec and the builders (specification SpecBuilders).       *)
(***************************************************************************)
\* The Spec carries the default value in every field.
IsDefault(s) ==
    /\ [ s EXCEPT !.gap_between_bearings = Unset ] = NewSpec
    /\ gap_between_bearings(s) = class_gap_between_bearings

\* What a bolt hole must be for the three offsets -8, -21, -34.
MatingBoltHoles(s) ==
    { Pos(0, Half(s.bearing_od) + Half(s.raiser_width_y),
          s.mount_stepper_top_to_bottom_bearing_bottom - z,
          [ kind |-> "cyl", axis |-> "X", r |-> Half(cmm(320)),
            bb |-> [ x |-> <<0 - s.mount_stepper_width, s.mount_stepper_width>>,
                     y |-> <<0 - Half(cmm(320)), Half(cmm(320))>>,
                     z |-> <<0 - Half(cmm(320)), Half(cmm(320))>> ] ]) :
        z \in { mm(8), mm(21), mm(34) } }

\* C5: for every Spec, stepper_grip and bearing_holder cut the same three
\* bolt holes: at Z = mount_stepper_top_to_bottom_bearing_bottom + z for z in
\* {-8, -21, -34}, at Y = bearing_od/2 + raiser_width_y/2, along X, with equal
\* radius and length; so do the two parts as assembly() combines them.
C5_BoltHolesCoincide ==
    /\ (lastOp = "stepper_grip" => BoltHoles(ret) = MatingBoltHoles(spec))
    /\ (lastOp = "bearing_holder" => BoltHoles(ret) = MatingBoltHoles(spec))
    /\ (lastOp = "assembly" =>
          /\ ret.ops[1].shape.name = "bearing_holder"
          /\ ret.ops[2].shape.name = "stepper_grip"
          /\ BoltHoles(ret.ops[1].shape) = BoltHoles(ret.ops[2].shape)
          /\ Cardinality(BoltHoles(ret.ops[1].shape)) = 3
          /\ { Mid(h.bb.z) : h \in BoltHoles(ret.ops[2].shape) }
               = { spec.mount_stepper_top_to_bottom_bearing_bottom - z :
                     z \in { mm(8), mm(21), mm(34) } })

\* Both mating parts built from one non-default Spec.
C5_Witness ==
    /\ lastOp = "assembly"
    /\ spec.mount_stepper_top_to_bottom_bearing_bottom = mm(80)
    /\ spec.raiser_width_y = mm(8)
    /\ Cardinality(BoltHoles(ret.ops[2].shape)) = 3

\* C6: every read of bearing_holder_z_height returns 2*bearing_thickness +
\* gap_between_bearings of the field values the Spec holds at the read, also
\* after assignments to those fields.
C6_HeightFollowsFields ==
    lastOp = "bearing_holder_z_height" =>
      /\ ret.kind = "value"
      /\ ret.value = 2 * spec.bearing_thickness
                       + (IF spec.gap_between_bearings = Unset
                          THEN class_gap_between_bearings
                          ELSE spec.gap_between_bearings[1])

\* A read after both base fields were given other values than the defaults.
C6_Witness ==
    /\ lastOp = "bearing_holder_z_height"
    /\ spec.bearing_thickness = mm(6)
    /\ spec.gap_between_bearings = <<mm(3)>>
    /\ ret.value = mm(15)

\* C7 as claimed: for the default Spec the bounding-box height of
\* bearing_holder is mount_stepper_top_to_bottom_bearing_bottom +
\* bearing_thickness.
C7_HeightIncludesCapAbove ==
    (lastOp = "bearing_holder" /\ IsDefault(spec)) =>
      BBoxHeight(ret) = spec.mount_stepper_top_to_bottom_bearing_bottom
                          + spec.bearing_thickness

\* C7 amended: for the default Spec the bounding-box height of bearing_holder
\* is mount_stepper_top_to_bottom_bearing_bottom: the top ring is anchored at
\* its top face at that Z and grows downward by bearing_thickness, so it adds
\* nothing above; the part spans Z = 0 to that Z, and material is left at both.
C7_HeightIsMountDistance ==
    (lastOp = "bearing_holder" /\ IsDefault(spec)) =>
      LET top == ret.ops[4].shape
          mst == spec.mount_stepper_top_to_bottom_bearing_bottom
      IN  /\ ret.ops[4].op = "add"
          /\ top.kind = "diff"
          /\ top.a.bb.z = <<mst - spec.bearing_thickness, mst>>
          /\ top.b.bb.z = <<mst - spec.bearing_thickness, mst>>
          /\ ZMin(ret) = 0
          /\ ZMax(ret) = mst
          /\ BBoxHeight(ret) = mst
          /\ \E p \in Probes(ret) : InPart(ret, p) /\ p[3] = mst
          /\ \E p \in Probes(ret) : InPart(ret, p) /\ p[3] = 0
          /\ InPart(ret, <<Half(spec.bearing_od) + Half(spec.general_wall_thickness),
                           0, mst>>)

\* bearing_holder built from the default Spec.
C7_Witness ==
    /\ lastOp = "bearing_holder"
    /\ IsDefault(spec)
    /\ BBoxHeight(ret) = mm(94)

\* C8 as claimed: for the default Spec the footprint radius of bearing_holder
\* is bearing_od/2 + general_wall_thickness.
C8_FootprintIsHousingRadius ==
    (lastOp = "bearing_holder" /\ IsDefault(spec)) =>
      FootprintR2(ret) = Sq(Half(spec.bearing_od) + spec.general_wall_thickness)

\* C8 amended: for the default Spec, bearing_od/2 + general_wall_thickness
\* (11 mm) is the radius of the two cylindrical bearing housings only; the
\* raiser rod reaches further, and the footprint radius of the part is the
\* distance of the rod's outer corners from the needle axis,
\* sqrt((raiser_width_x/2)^2 + (bearing_od/2 + raiser_width_y)^2) = 19.5 mm.
C8_FootprintIsRodCorner ==
    (lastOp = "bearing_holder" /\ IsDefault(spec)) =>
      LET housing == Half(spec.bearing_od) + spec.general_wall_thickness
          cornerX == Half(spec.raiser_width_x)
          cornerY == Half(spec.bearing_od) + spec.raiser_width_y
      IN  /\ ret.ops[1].shape.r = housing
          /\ ret.ops[4].shape.a.r = housing
          /\ FootprintR2(ret) = Sq(cornerX) + Sq(cornerY)
          /\ FootprintR2(ret) = Sq(cmm(1950))
          /\ FootprintR2(ret) > Sq(housing)
          /\ \E p \in Probes(ret) :
               InPart(ret, p) /\ Sq(p[1]) + Sq(p[2]) = FootprintR2(ret)

\* bearing_holder built from the default Spec, its rod in place.
C8_Witness ==
    /\ lastOp = "bearing_holder"
    /\ IsDefault(spec)
    /\ ret.ops[5].shape.kind = "box"
    /\ InPart(ret, <<mm(15) \div 2, mm(18), 0>>)

\* C9: the bore spool_holder cuts through its base has diameter
\* diameter_at_spool_holder + 0.5, where diameter_at_spool_holder is
\* bearing_id - 0.7: it is bearing_id - 0.2 whatever spool_width and
\* spool_diameter are (14 and 72 included), on the axis, through the 10 mm base.
C9_BoreDiameter ==
    /\ (lastOp = "diameter_at_spool_holder" =>
          ret.value = spec.bearing_id - cmm(70))
    /\ (lastOp = "spool_holder" =>
          LET bore == ret.ops[2].shape
          IN  /\ ret.ops[2].op = "sub"
              /\ bore.kind = "cyl"
              /\ bore.axis = "Z"
              /\ 2 * bore.r = (spec.bearing_id - cmm(70)) + cmm(50)
              /\ Mid(bore.bb.x) = 0
              /\ Mid(bore.bb.y) = 0
              /\ bore.bb.z = <<0, mm(10)>>)

\* spool_holder built for spool_width = 14 and spool_diameter = 72.
C9_Witness ==
    /\ lastOp = "spool_holder"
    /\ spec.spool_width = mm(14)
    /\ spec.spool_diameter = mm(72)
    /\ 2 * ret.ops[2].shape.r = cmm(770)

Contains(outer, inner) == outer[1] <= inner[1] /\ inner[2] <= outer[2]

\* Points just inside a box: one unit off each face, and the middle.
InnerMarks(iv) == { iv[1] + 1, Mid(iv), iv[2] - 1 }

\* C10: for every Spec, the slot stepper_grip removes contains the raiser rod
\* bearing_holder adds, on X, Y and Z, with the extents the two builders give
\* them; no material of stepper_grip is left inside the rod.
C10_SlotContainsRod ==
    lastOp = "assembly" =>
      LET rod == ret.ops[1].shape.ops[5]
          slot == ret.ops[2].shape.ops[4]
          grip == ret.ops[2].shape
          od2 == Half(spec.bearing_od)
          mst == spec.mount_stepper_top_to_bottom_bearing_bottom
      IN  /\ rod.op = "add" /\ rod.shape.kind = "box"
          /\ slot.op = "sub" /\ slot.shape.kind = "box"
          /\ rod.shape.bb.x = <<0 - Half(spec.raiser_width_x), Half(spec.raiser_width_x)>>
          /\ rod.shape.bb.y = <<od2, od2 + spec.raiser_width_y>>
          /\ rod.shape.bb.z = <<0, mst>>
          /\ slot.shape.bb.x = <<0 - Half(spec.raiser_width_x + cmm(10)),
                                 Half(spec.raiser_width_x + cmm(10))>>
          /\ slot.shape.bb.y = <<od2, od2 + spec.raiser_width_y + cmm(10)>>
          /\ slot.shape.bb.z = <<0, 2 * mst>>
          /\ Contains(slot.shape.bb.x, rod.shape.bb.x)
          /\ Contains(slot.shape.bb.y, rod.shape.bb.y)
          /\ Contains(slot.shape.bb.z, rod.shape.bb.z)
          /\ \A x \in InnerMarks(rod.shape.bb.x) :
               \A y \in InnerMarks(rod.shape.bb.y) :
                 \A z \in InnerMarks(rod.shape.bb.z) :
                   ~InPart(grip, <<x, y, z>>)

\* Rod and slot built from one Spec with a narrower rod and a lower mount.
C10_Witness ==
    /\ lastOp = "assembly"
    /\ spec.raiser_width_x = mm(12)
    /\ spec.mount_stepper_top_to_bottom_bearing_bottom = mm(80)
    /\ ret.ops[1].shape.ops[5].shape.bb.z = <<0, mm(80)>>

====
